---- MODULE Spec2Model ----
(***************************************************************************)
(* Model of src/src/controllers/WebsocketController.ts: the singleton      *)
(* WebsocketController (fields ws, callbacks, connectionStatus), its       *)
(* public operations connect / disconnect / sendMeetingData, the four      *)
(* handlers it registers on every WebSocket it creates, and handleMessage. *)
(*                                                                         *)
(* The browser WebSocket is the environment: every socket the controller   *)
(* ever created is kept in `sockets` with its readyState and the state of  *)
(* its onclose slot, and raises open / message / error / close events.     *)
(* The handlers are closures over `this`, not over the socket that raised  *)
(* the event, so an event of any socket acts on the controller's current   *)
(* fields.                                                                 *)
(*                                                                         *)
(* A text is a sequence of one-character tokens.  Hangul syllables are     *)
(* written as tokens "ko.<romanisation>" (one UTF-16 unit each); a token   *)
(* longer than that stands for a run of characters that no prefix test of  *)
(* the code looks into.                                                    *)
(***************************************************************************)
EXTENDS Naturals, Sequences, FiniteSets, TLC

\* ------------------------------------------------------------------ bounds
MaxSockets == 2        \* WebSocket objects created in one run
MaxCallbackSets == 2   \* distinct UpdateCallbacks objects a caller supplies
MaxWire == 4           \* stage texts in one recorded stream (SpecWire)
MaxNow == 2            \* distinct values Date.now() returns

CallbackSets == 1..MaxCallbackSets
Reasons == {"", "bye"}                         \* CloseEvent.reason
SendOutcomes == {"ok", "metadataThrows", "audioThrows"}

\* ------------------------------------------------------------ state
VARIABLES
    connectionStatus,  \* line 52
    ws,                \* line 49: index into sockets, 0 = null
    callbacks,         \* line 50: a callback set, 0 = null
    sockets,           \* every WebSocket created so far
    task,              \* socket whose close event follows its error event, else 0
    trace,             \* effects of the latest operation/handler, in order
    last               \* which operation/handler ran latest, with its inputs,
                       \* its return value and the status changes it made

vars == <<connectionStatus, ws, callbacks, sockets, task, trace, last>>

ConnectionStatus == {"disconnected", "connecting", "connected", "error"}

\* an observable effect: a callback invocation on callback set cb, or a
\* frame handed to socket n (cb = 0, name = "ws.send")
Ev(cb, name, n, s, v) == [cb |-> cb, name |-> name, n |-> n, s |-> s, v |-> v]

\* the controller's fields plus the sockets, and what the running
\* operation has done so far: its effects, its return value, and the
\* assignments <<old, new>> line 65 has made to connectionStatus
Machine == [connectionStatus |-> connectionStatus, ws |-> ws,
            callbacks |-> callbacks, sockets |-> sockets, trace |-> <<>>,
            result |-> "", changes |-> <<>>]

Emit(m, name, n, s, v) ==
    IF m.callbacks # 0
    THEN [m EXCEPT !.trace = Append(@, Ev(m.callbacks, name, n, s, v))]
    ELSE m

\* ------------------------------------------------------------ updateStatus
updateStatus(m, newStatus) ==
    IF m.connectionStatus # newStatus
    THEN Emit([m EXCEPT !.connectionStatus = newStatus,
                        !.changes = Append(@, <<m.connectionStatus, newStatus>>)],
              "onStatusChange", 0, newStatus, <<>>)
    ELSE m

\* ------------------------------------------------------------ isConnected
\* isConnected() that also wants the status to say connected
isConnected_needsStatus(m) ==
    /\ m.ws # 0
    /\ m.sockets[m.ws].readyState = "OPEN"
    /\ m.connectionStatus = "connected"

isConnected(m) ==
    m.ws # 0 /\ m.sockets[m.ws].readyState = "OPEN"

\* new WebSocket(url) with the four handlers assigned
NewSocket == [readyState |-> "CONNECTING", onclose |-> TRUE, mustFail |-> FALSE]

\* WebSocket.close(): CONNECTING/OPEN -> CLOSING; closing a socket that is
\* still connecting fails the connection (error event, then close event)
SocketClose(s) ==
    IF s.readyState = "CONNECTING"
    THEN [s EXCEPT !.readyState = "CLOSING", !.mustFail = TRUE]
    ELSE IF s.readyState = "OPEN"
    THEN [s EXCEPT !.readyState = "CLOSING"]
    ELSE s

\* ------------------------------------------------------------ connect
\* connect() without the already-open branch
connect_reopens(m, cbs) ==
    LET m1 == updateStatus(m, "connecting")
        m2 == [m1 EXCEPT !.callbacks = cbs]
    IN  [m2 EXCEPT !.sockets = Append(@, NewSocket),
                   !.ws = Len(m.sockets) + 1]

connect(m, cbs) ==
    IF isConnected(m)
    THEN LET m1 == updateStatus(m, "connected")
             m2 == [m1 EXCEPT !.callbacks = cbs]
         IN  Emit(m2, "onOpen", 0, "", <<>>)
    ELSE LET m1 == updateStatus(m, "connecting")
             m2 == [m1 EXCEPT !.callbacks = cbs]
         IN  [m2 EXCEPT !.sockets = Append(@, NewSocket),
                        !.ws = Len(m.sockets) + 1]

\* ------------------------------------------------------------ disconnect
\* disconnect() that leaves the close handler in place
disconnect_keepsOnclose(m) ==
    IF m.ws # 0
    THEN LET m1 == [m EXCEPT !.sockets[m.ws] = SocketClose(@)]
             m2 == [m1 EXCEPT !.ws = 0, !.callbacks = 0]
         IN  updateStatus(m2, "disconnected")
    ELSE updateStatus(m, "disconnected")

\* disconnect() that forgets to drop the callback set
disconnect_keepsCallbacks(m) ==
    IF m.ws # 0
    THEN LET m1 == [m EXCEPT !.sockets[m.ws] =
                        SocketClose([@ EXCEPT !.onclose = FALSE])]
             m2 == [m1 EXCEPT !.ws = 0]
         IN  updateStatus(m2, "disconnected")
    ELSE updateStatus(m, "disconnected")

disconnect(m) ==
    IF m.ws # 0
    THEN LET m1 == [m EXCEPT !.sockets[m.ws] =
                        SocketClose([@ EXCEPT !.onclose = FALSE])]
             m2 == [m1 EXCEPT !.ws = 0, !.callbacks = 0]
         IN  updateStatus(m2, "disconnected")
    ELSE updateStatus(m, "disconnected")

\* ------------------------------------------------------------ ws handlers
onopen(m) ==
    Emit(updateStatus(m, "connected"), "onOpen", 0, "", <<>>)

onerror(m) ==
    Emit(updateStatus(m, "error"), "onError", 0, "error", <<>>)

\* a close handler that resets the status whatever it is
onclose_alwaysDisconnected(m, reason) ==
    LET m1 == updateStatus(m, "disconnected")
        m2 == Emit(m1, "onClose", 0, reason, <<>>)
    IN  [m2 EXCEPT !.ws = 0, !.callbacks = 0]

\* a close handler that forgets to drop the callback set
onclose_keepsCallbacks(m, reason) ==
    LET m1 == IF m.connectionStatus # "error"
              THEN updateStatus(m, "disconnected") ELSE m
        m2 == Emit(m1, "onClose", 0, reason, <<>>)
    IN  [m2 EXCEPT !.ws = 0]

onclose(m, reason) ==
    LET m1 == IF m.connectionStatus # "error"
              THEN updateStatus(m, "disconnected") ELSE m
        m2 == Emit(m1, "onClose", 0, reason, <<>>)
    IN  [m2 EXCEPT !.ws = 0, !.callbacks = 0]

\* ------------------------------------------------------------ texts
StartsWith(text, prefix) ==
    /\ Len(text) >= Len(prefix)
    /\ SubSeq(text, 1, Len(prefix)) = prefix

\* String.prototype.substring(start) with start <= length or beyond it
Substring(text, start) ==
    IF start >= Len(text) THEN <<>> ELSE SubSeq(text, start + 1, Len(text))

LowerOf(c) ==
    CASE c = "E" -> "e" [] c = "R" -> "r" [] c = "O" -> "o" [] OTHER -> c

toLowerCase(text) == [i \in 1..Len(text) |-> LowerOf(text[i])]

\* line 186
FatalPrefix ==
    <<"ko.o", "ko.ryu", ":", " ",
      "meeting_info-ga metadeiteo-e jegongdoeji anhatseumnida.">>
\* line 197
ErrorPrefix == <<"e", "r", "r", "o", "r", ":">>
OryuPrefix == <<"ko.o", "ko.ryu", ":">>
ProcessingErrorPrefix ==
    <<"ko.cheo", "ko.ri", " ", "ko.jung", " ", "ko.o", "ko.ryu", " ",
      "ko.bal", "ko.saeng", ":">>
\* lines 213, 221, 236, 251: "<n>단계 완료" and "<n>단계 완료:"
StepDone(n) == <<n, "ko.dan", "ko.gye", " ", "ko.wan", "ko.ryo">>
Step1Prefix == StepDone("1")
Step2Prefix == StepDone("2") \o <<":">>
Step3Prefix == StepDone("3") \o <<":">>
Step4Prefix == StepDone("4") \o <<":">>
\* lines 225, 240, 255: "<n>단계 완료: ".length
StepCut(n) == Len(StepDone(n) \o <<":", " ">>)

\* ------------------------------------------------------------ JSON.parse
\* The payload grammar the model decodes: optional blanks, then null, an
\* array  [ a , a ... ]  or an object  { k : a , k : a ... }  of atoms.
\* An atom stands for the text of one JSON value.
JsonKeys == {"k1", "k2"}
JsonAtoms == {"D1", "D2", "I1", "I2", "null"}

\* the fields the code reads from a decoded atom; <<>> is undefined
RawFields(a) ==
    CASE a = "D1" -> [title |-> <<"T">>, type |-> <<"report">>,
                      score |-> <<>>, insight |-> <<>>]
      [] a = "D2" -> [title |-> <<"U">>, type |-> <<"memo">>,
                      score |-> <<90>>, insight |-> <<>>]
      [] a = "I1" -> [title |-> <<>>, type |-> <<>>,
                      score |-> <<5>>, insight |-> <<"x">>]
      [] a = "I2" -> [title |-> <<>>, type |-> <<>>,
                      score |-> <<7>>, insight |-> <<"y">>]

RECURSIVE TrimLeft(_)
TrimLeft(t) == IF t # <<>> /\ Head(t) = " " THEN TrimLeft(Tail(t)) ELSE t
RECURSIVE TrimRight(_)
TrimRight(t) ==
    IF t # <<>> /\ t[Len(t)] = " " THEN TrimRight(SubSeq(t, 1, Len(t) - 1)) ELSE t

IsArrayText(t) ==
    /\ Len(t) >= 2 /\ t[1] = "[" /\ t[Len(t)] = "]"
    /\ \/ Len(t) = 2
       \/ /\ Len(t) % 2 = 1
          /\ \A i \in 2..(Len(t) - 1) :
                IF i % 2 = 0 THEN t[i] \in JsonAtoms ELSE t[i] = ","

IsObjectText(t) ==
    /\ Len(t) >= 2 /\ t[1] = "{" /\ t[Len(t)] = "}"
    /\ \/ Len(t) = 2
       \/ /\ Len(t) % 4 = 1
          /\ \A i \in 2..(Len(t) - 1) :
                CASE i % 4 = 2 -> t[i] \in JsonKeys
                  [] i % 4 = 3 -> t[i] = ":"
                  [] i % 4 = 0 -> t[i] \in JsonAtoms
                  [] OTHER -> t[i] = ","

\* the values of an object in property order: a repeated key keeps its first
\* position and takes its last value
RECURSIVE ObjectEntries(_, _)
ObjectEntries(t, acc) ==
    IF Len(t) < 4 THEN acc
    ELSE LET k == t[2]
             a == t[4]
             seen == {i \in 1..Len(acc) : acc[i][1] = k}
             acc1 == IF seen = {} THEN Append(acc, <<k, a>>)
                     ELSE [i \in 1..Len(acc) |->
                              IF i \in seen THEN <<k, a>> ELSE acc[i]]
         IN  ObjectEntries(SubSeq(t, 5, Len(t)), acc1)

\* JSON.parse(text): ok = FALSE is a SyntaxError
JSONparse(text) ==
    LET t == TrimRight(TrimLeft(text))
    IN  IF t = <<"null">> THEN [ok |-> TRUE, kind |-> "null", items |-> <<>>]
        ELSE IF IsArrayText(t)
        THEN [ok |-> TRUE, kind |-> "array",
              items |-> [i \in 1..((Len(t) - 1) \div 2) |-> t[2 * i]]]
        ELSE IF IsObjectText(t)
        THEN LET es == ObjectEntries(t, <<>>)
             IN  [ok |-> TRUE, kind |-> "object",
                  items |-> [i \in 1..Len(es) |-> es[i][2]]]
        ELSE [ok |-> FALSE, kind |-> "", items |-> <<>>]

\* ------------------------------------------------------------ sendMeetingData
Send(m, kind) ==
    [m EXCEPT !.trace = Append(@, Ev(0, "ws.send", m.ws, kind, <<>>))]

\* a catch block that records the failure and tells nobody
sendCatch_silent(m) ==
    [updateStatus(m, "error") EXCEPT !.result = "false"]

sendCatch(m) ==
    [Emit(updateStatus(m, "error"), "onError", 0, "senderror", <<>>)
        EXCEPT !.result = "false"]

\* the audio frame handed over before the metadata frame
sendMeetingData_audioFirst(m, outcome) ==
    IF ~isConnected(m) \/ m.ws = 0
    THEN [m EXCEPT !.result = "false"]
    ELSE IF outcome = "audioThrows" THEN sendCatch(m)
    ELSE LET m1 == Send(m, "audio")
         IN  IF outcome = "metadataThrows" THEN sendCatch(m1)
             ELSE LET m2 == Send(m1, "metadata")
                      m3 == Emit(m2, "onStepUpdate", 1, "processing", <<>>)
                      m4 == Emit(m3, "onSetCurrentStep", 1, "", <<>>)
                  IN  [m4 EXCEPT !.result = "true"]

\* the connection test moved into the try block: sending on a missing or
\* unready socket throws and lands in the catch block
sendMeetingData_guardInTry(m, outcome) ==
    IF ~isConnected(m) \/ m.ws = 0 \/ outcome = "metadataThrows"
    THEN sendCatch(m)
    ELSE LET m1 == Send(m, "metadata")
         IN  IF outcome = "audioThrows" THEN sendCatch(m1)
             ELSE LET m2 == Send(m1, "audio")
                      m3 == Emit(m2, "onStepUpdate", 1, "processing", <<>>)
                      m4 == Emit(m3, "onSetCurrentStep", 1, "", <<>>)
                  IN  [m4 EXCEPT !.result = "true"]

sendMeetingData(m, outcome) ==
    IF ~isConnected(m) \/ m.ws = 0
    THEN [m EXCEPT !.result = "false"]
    ELSE IF outcome = "metadataThrows" THEN sendCatch(m)
    ELSE LET m1 == Send(m, "metadata")
         IN  IF outcome = "audioThrows" THEN sendCatch(m1)
             ELSE LET m2 == Send(m1, "audio")
                      m3 == Emit(m2, "onStepUpdate", 1, "processing", <<>>)
                      m4 == Emit(m3, "onSetCurrentStep", 1, "", <<>>)
                  IN  [m4 EXCEPT !.result = "true"]

\* ------------------------------------------------------------ handleMessage
\* lines 213-217, 222-224, 237-239, 252-254
\* the current stage set to the stage that completed
stepAdvance_sameStage(m, n) ==
    LET m1 == Emit(m, "onStepUpdate", n, "completed", <<>>)
        m2 == Emit(m1, "onStepUpdate", n + 1, "processing", <<>>)
    IN  Emit(m2, "onSetCurrentStep", n, "", <<>>)

stepAdvance(m, n) ==
    LET m1 == Emit(m, "onStepUpdate", n, "completed", <<>>)
        m2 == Emit(m1, "onStepUpdate", n + 1, "processing", <<>>)
    IN  Emit(m2, "onSetCurrentStep", n + 1, "", <<>>)

\* lines 265-269
messageCatch(m) ==
    Emit(updateStatus(m, "error"), "onError", 0, "messageerror", <<>>)

\* lines 228-233
\* ids built from the receipt time alone
documentsWithIds_noIndex(items, now) ==
    [i \in 1..Len(items) |->
        [id |-> <<"doc", now>>,
         title |-> RawFields(items[i]).title,
         type |-> RawFields(items[i]).type,
         score |-> RawFields(items[i]).score]]

documentsWithIds(items, now) ==
    [i \in 1..Len(items) |->
        [id |-> <<"doc", now, i - 1>>,
         title |-> RawFields(items[i]).title,
         type |-> RawFields(items[i]).type,
         score |-> RawFields(items[i]).score]]

\* lines 244-248
insightsWithIds(items, now) ==
    [i \in 1..Len(items) |->
        [id |-> <<"insight", now, i - 1>>,
         insight |-> RawFields(items[i]).insight,
         score |-> RawFields(items[i]).score]]

\* reading a property of null throws a TypeError
HasNull(items) == \E i \in 1..Len(items) : items[i] = "null"

handleStep2(m, message, now) ==
    LET m1 == stepAdvance(m, 2)
        p == JSONparse(Substring(message, StepCut("2")))
    IN  IF ~p.ok \/ p.kind # "array" \/ HasNull(p.items)
        THEN messageCatch(m1)
        ELSE Emit(m1, "onDocumentsReceived", 0, "",
                  documentsWithIds(p.items, now))

\* stage 3 that decodes the payload before it emits the stage events
handleStep3_decodeFirst(m, message, now) ==
    LET p == JSONparse(Substring(message, StepCut("3")))
    IN  IF ~p.ok \/ p.kind = "null" \/ HasNull(p.items)
        THEN messageCatch(m)
        ELSE Emit(stepAdvance(m, 3), "onInsightsReceived", 0, "",
                  insightsWithIds(p.items, now))

handleStep3(m, message, now) ==
    LET m1 == stepAdvance(m, 3)
        p == JSONparse(Substring(message, StepCut("3")))
    IN  IF ~p.ok \/ p.kind = "null" \/ HasNull(p.items)
        THEN messageCatch(m1)
        ELSE Emit(m1, "onInsightsReceived", 0, "",
                  insightsWithIds(p.items, now))

\* stage 5 reported completed before the markup is handed over
handleStep4_completesEarly(m, message) ==
    LET m1 == stepAdvance(m, 4)
        m2 == Emit(m1, "onStepUpdate", 5, "completed", <<>>)
        m3 == Emit(m2, "onHtmlReceived", 0, "", Substring(message, StepCut("4")))
    IN  Emit(m3, "onSetAiHighlightMode", 0, "true", <<>>)

handleStep4(m, message) ==
    LET m1 == stepAdvance(m, 4)
        m2 == Emit(m1, "onHtmlReceived", 0, "", Substring(message, StepCut("4")))
        m3 == Emit(m2, "onSetAiHighlightMode", 0, "true", <<>>)
    IN  Emit(m3, "onStepUpdate", 5, "completed", <<>>)

isFatal(message) == StartsWith(message, FatalPrefix)

\* the "error:" test without toLowerCase()
isGenericError_caseSensitive(message) ==
    \/ StartsWith(message, ErrorPrefix)
    \/ StartsWith(message, OryuPrefix)
    \/ StartsWith(message, ProcessingErrorPrefix)

isGenericError(message) ==
    \/ StartsWith(toLowerCase(message), ErrorPrefix)
    \/ StartsWith(message, OryuPrefix)
    \/ StartsWith(message, ProcessingErrorPrefix)

serverError(m, message) ==
    Emit(updateStatus(m, "error"), "onError", 0, "servererror", message)

\* the generic error test placed before the fatal one
handleMessage_genericFirst(m, message, now) ==
    IF m.callbacks = 0 THEN m
    ELSE IF isGenericError(message) THEN serverError(m, message)
    ELSE IF isFatal(message) THEN disconnect(serverError(m, message))
    ELSE IF StartsWith(message, Step1Prefix) THEN stepAdvance(m, 1)
    ELSE IF StartsWith(message, Step2Prefix) THEN handleStep2(m, message, now)
    ELSE IF StartsWith(message, Step3Prefix) THEN handleStep3(m, message, now)
    ELSE IF StartsWith(message, Step4Prefix) THEN handleStep4(m, message)
    ELSE m

handleMessage(m, message, now) ==
    IF m.callbacks = 0 THEN m
    ELSE IF isFatal(message) THEN disconnect(serverError(m, message))
    ELSE IF isGenericError(message) THEN serverError(m, message)
    ELSE IF StartsWith(message, Step1Prefix) THEN stepAdvance(m, 1)
    ELSE IF StartsWith(message, Step2Prefix) THEN handleStep2(m, message, now)
    ELSE IF StartsWith(message, Step3Prefix) THEN handleStep3(m, message, now)
    ELSE IF StartsWith(message, Step4Prefix) THEN handleStep4(m, message)
    ELSE m

\* inbound texts the peer sends
Messages ==
    { FatalPrefix,
      FatalPrefix \o <<" ", "x">>,
      OryuPrefix \o <<" ", "meeting_info", " ", "x">>,
      ErrorPrefix \o <<" ", "x">>,
      <<"E", "r", "r", "O", "R", ":">>,
      <<" ">> \o ErrorPrefix,
      ProcessingErrorPrefix \o <<" ", "x">>,
      Step1Prefix \o <<":", " ", "x">>,
      Step2Prefix \o <<" ", "[", "D1", ",", "D2", "]">>,
      Step2Prefix \o <<" ", "[", "D1", "]">>,
      Step2Prefix \o <<" ", "[", "D1", ",", "]">>,
      Step2Prefix \o <<"[", "D1", "]">>,
      Step2Prefix \o <<" ", "{", "k1", ":", "D1", "}">>,
      StepDone("2"),
      Step3Prefix \o <<" ", "{", "k1", ":", "I1", ",", "k2", ":", "I2", "}">>,
      Step3Prefix \o <<" ", "{", "k1", ":", "I1">>,
      Step3Prefix \o <<" ", "null">>,
      Step4Prefix \o <<" ", "<p>", "x", "</p>">>,
      <<"h", "i">> }

\* Date.now() is read on the two decoding paths only (lines 229, 245)
ReadsClock(message) ==
    StartsWith(message, Step2Prefix) \/ StartsWith(message, Step3Prefix)

\* ------------------------------------------------------------ actions
Commit(m, l) ==
    /\ connectionStatus' = m.connectionStatus
    /\ ws' = m.ws
    /\ callbacks' = m.callbacks
    /\ sockets' = m.sockets
    /\ trace' = m.trace
    /\ last' = [l EXCEPT !.result = m.result, !.changes = m.changes]

Op(op, t, cb, msg, arg, result) ==
    [op |-> op, t |-> t, cb |-> cb, msg |-> msg, arg |-> arg, result |-> result,
     changes |-> <<>>]

Init ==
    /\ connectionStatus = "disconnected"
    /\ ws = 0
    /\ callbacks = 0
    /\ sockets = <<>>
    /\ task = 0
    /\ trace = <<>>
    /\ last = Op("init", 0, 0, <<>>, "", "")

Connect ==
    \E cbs \in CallbackSets :
        /\ task = 0
        /\ isConnected(Machine) \/ Len(sockets) < MaxSockets
        /\ Commit(connect(Machine, cbs), Op("connect", 0, cbs, <<>>, "", ""))
        /\ UNCHANGED task

Disconnect ==
    /\ task = 0
    /\ Commit(disconnect(Machine), Op("disconnect", 0, 0, <<>>, "", ""))
    /\ UNCHANGED task

\* open event of socket t
TransportOpen ==
    \E t \in 1..Len(sockets) :
        /\ task = 0
        /\ sockets[t].readyState = "CONNECTING"
        /\ Commit(onopen([Machine EXCEPT !.sockets[t].readyState = "OPEN"]),
                  Op("open", t, 0, <<>>, "", ""))
        /\ UNCHANGED task

\* the connection of socket t fails: readyState CLOSED, error event now,
\* close event next in the same task
TransportError ==
    \E t \in 1..Len(sockets) :
        /\ task = 0
        /\ sockets[t].readyState \in {"CONNECTING", "OPEN", "CLOSING"}
        /\ Commit(onerror([Machine EXCEPT !.sockets[t].readyState = "CLOSED"]),
                  Op("error", t, 0, <<>>, "", ""))
        /\ task' = t

\* close event of socket t: after its error event, or a clean close
TransportClose ==
    \E t \in 1..Len(sockets), reason \in Reasons :
        /\ \/ task = t
           \/ /\ task = 0
              /\ sockets[t].readyState \in {"OPEN", "CLOSING"}
              /\ ~sockets[t].mustFail
        /\ LET m == [Machine EXCEPT !.sockets[t].readyState = "CLOSED"]
           IN  Commit(IF sockets[t].onclose THEN onclose(m, reason) ELSE m,
                      Op("close", t, 0, <<>>, reason, ""))
        /\ task' = 0

SendMeetingData ==
    \E outcome \in SendOutcomes :
        /\ task = 0
        /\ Commit(sendMeetingData(Machine, outcome),
                  Op("send", 0, 0, <<>>, outcome, ""))
        /\ UNCHANGED task

\* message event of socket t: the socket is open, or it was open when
\* close() was called on it and the closing handshake is not over
TransportMessage ==
    \E t \in 1..Len(sockets), message \in Messages, now \in 1..MaxNow :
        /\ task = 0
        /\ now = 1 \/ ReadsClock(message)
        /\ \/ sockets[t].readyState = "OPEN"
           \/ sockets[t].readyState = "CLOSING" /\ ~sockets[t].mustFail
        /\ Commit(handleMessage(Machine, message, now),
                  Op("message", t, 0, message, "", ""))
        /\ UNCHANGED task

Next ==
    \/ Connect
    \/ Disconnect
    \/ SendMeetingData
    \/ TransportOpen
    \/ TransportMessage
    \/ TransportError
    \/ TransportClose

Spec == Init /\ [][Next]_vars

\* ------------------------------------------------------------ the stream
\* The callback stream of a session as its consumer sees it: connect, the
\* open event, then stage-completion texts with decodable payloads in any
\* order.  Here `trace` is not reset by a message: it collects, since the
\* latest connect/open, an entry "message" n for every stage-n text the
\* socket delivers, followed by the effects of handling it.
WireTexts ==
    { [n |-> 1, text |-> Step1Prefix \o <<":", " ", "x">>],
      [n |-> 2, text |-> Step2Prefix \o <<" ", "[", "D1", ",", "D2", "]">>],
      [n |-> 3, text |-> Step3Prefix \o
                    <<" ", "{", "k1", ":", "I1", ",", "k2", ":", "I2", "}">>],
      [n |-> 4, text |-> Step4Prefix \o <<" ", "<p>", "x", "</p>">>] }

WireMessage ==
    \E t \in 1..Len(sockets), w \in WireTexts :
        /\ task = 0
        /\ sockets[t].readyState = "OPEN"
        /\ Cardinality({i \in DOMAIN trace : trace[i].name = "message"}) < MaxWire
        /\ LET m == handleMessage(Machine, w.text, 1)
           IN  /\ connectionStatus' = m.connectionStatus
               /\ ws' = m.ws
               /\ callbacks' = m.callbacks
               /\ sockets' = m.sockets
               /\ trace' = trace \o <<Ev(0, "message", w.n, "", <<>>)>> \o m.trace
               /\ last' = [Op("message", t, 0, w.text, "", "")
                              EXCEPT !.changes = m.changes]
        /\ UNCHANGED task

NextWire ==
    \/ Connect
    \/ TransportOpen
    \/ WireMessage

SpecWire == Init /\ [][NextWire]_vars

\* ------------------------------------------------------------ properties
Count(tr, name) == Cardinality({i \in DOMAIN tr : tr[i].name = name})

Live == {t \in 1..Len(sockets) : sockets[t].readyState \in {"CONNECTING", "OPEN"}}

\* the held socket exists and its readyState is OPEN
TransportReady == ws # 0 /\ sockets[ws].readyState = "OPEN"

\* C1: at most one transport created by the controller is connecting or
\* open at any time.
C1_AtMostOneLiveTransport == Cardinality(Live) <= 1

\* C2: the latest operation invoked on-status-change once for every change
\* it made to the status value, and not otherwise.
C2_NotifiedOncePerChange ==
    Count(trace, "onStatusChange") = Len(last.changes)

\* C3 (as claimed): every status change is one of the listed transitions
\* with its listed trigger; nothing else, error -> connected included.
C3_ListedTransition(c, op, wasReady) ==
    \/ /\ c[2] = "connecting"
       /\ c[1] \in {"disconnected", "error", "connected"}
       /\ op = "connect" /\ ~wasReady
    \/ /\ c = <<"connecting", "connected">>
       /\ op = "open"
    \/ /\ c[2] = "error"
       /\ c[1] \in {"connecting", "connected"}
       /\ op \in {"error", "send", "message"}
    \/ /\ c[2] = "disconnected"
       /\ c[1] \in {"connected", "connecting"}
       /\ op = "close"
    \/ /\ c[2] = "disconnected"
       /\ op \in {"disconnect", "message"}

C3_OnlyListedTransitions ==
    [][\A i \in DOMAIN last'.changes :
          C3_ListedTransition(last'.changes[i], last'.op, TransportReady)]_vars

\* C3 (amended): the trigger decides the new status, from whatever status
\* the controller is in: connecting by connect() when the held transport is
\* not open; connected by an open event or by connect() when the held
\* transport is open; error by an error event, a failed send, a server
\* error text or a decoding failure; disconnected by a close event unless
\* the status is error, by disconnect(), and by the disconnect() of the
\* fatal text.
C3_TriggeredTransition(c, l, wasReady) ==
    CASE c[2] = "connecting" -> l.op = "connect" /\ ~wasReady
      [] c[2] = "connected" ->
            l.op = "open" \/ (l.op = "connect" /\ wasReady)
      [] c[2] = "error" ->
            \/ l.op = "error"
            \/ l.op = "send" /\ l.arg \in {"metadataThrows", "audioThrows"}
            \/ l.op = "message"
      [] c[2] = "disconnected" ->
            \/ l.op = "close" /\ c[1] # "error"
            \/ l.op = "disconnect"
            \/ l.op = "message" /\ c[1] = "error"

C3_TransitionsByTrigger ==
    [][\A i \in DOMAIN last'.changes :
          /\ last'.changes[i][1] # last'.changes[i][2]
          /\ C3_TriggeredTransition(last'.changes[i], last', TransportReady)]_vars

\* an error -> connected change made by connect() on the open transport
C3_Witness ==
    /\ last.op = "connect"
    /\ last.changes = <<<<"error", "connected">>>>

\* C4: disconnect() invokes neither on-close nor on-error, leaves
\* isConnected() false, the connection reference and the callback set
\* absent and the status disconnected, whether or not a connection
\* existed; the socket it held is closed with its close handler removed.
C4_ManualDisconnect ==
    [][last'.op = "disconnect" =>
          /\ Count(trace', "onClose") = 0
          /\ Count(trace', "onError") = 0
          /\ ~TransportReady'
          /\ ws' = 0
          /\ callbacks' = 0
          /\ connectionStatus' = "disconnected"
          /\ ws # 0 => /\ ~sockets'[ws].onclose
                       /\ sockets'[ws].readyState \in {"CLOSING", "CLOSED"}]_vars

\* disconnect() has just closed a socket that had opened
C4_Witness ==
    /\ last.op = "disconnect"
    /\ \E t \in 1..Len(sockets) :
          /\ sockets[t].readyState = "CLOSING"
          /\ ~sockets[t].mustFail
          /\ ~sockets[t].onclose

Sends(tr) == {i \in DOMAIN tr : tr[i].name = "ws.send"}

\* C5 (as claimed): sendMeetingData called while the status is not
\* connected returns failure, sends no frame and invokes no error callback.
C5_SendNeedsConnectedStatus ==
    [][(last'.op = "send" /\ connectionStatus # "connected") =>
          /\ last'.result = "false"
          /\ Sends(trace') = {}
          /\ Count(trace', "onError") = 0]_vars

\* C5 (amended): the precondition of sendMeetingData is that the held
\* transport is ready, whatever the status: when it is not ready the call
\* returns failure, sends no frame and invokes no error callback; when it
\* is ready and no send throws, the call sends both frames and returns
\* success, also with status error.
C5_SendNeedsReadyTransport ==
    [][last'.op = "send" =>
          /\ ~TransportReady =>
                /\ last'.result = "false"
                /\ Sends(trace') = {}
                /\ Count(trace', "onError") = 0
          /\ (TransportReady /\ last'.arg = "ok") =>
                /\ last'.result = "true"
                /\ Cardinality(Sends(trace')) = 2]_vars

\* a successful send made while the status was error
C5_Witness ==
    /\ last.op = "send"
    /\ last.result = "true"
    /\ connectionStatus = "error"

\* C6: a send on the open connection in which nothing throws hands the
\* metadata frame and then the audio frame to the held socket, then invokes
\* on-stage-update(1, processing) and on-set-current-stage(1), returns
\* success and leaves the status alone.
C6_SendOrder ==
    [][(last'.op = "send" /\ TransportReady /\ last'.arg = "ok") =>
          /\ trace' = << Ev(0, "ws.send", ws, "metadata", <<>>),
                         Ev(0, "ws.send", ws, "audio", <<>>),
                         Ev(callbacks, "onStepUpdate", 1, "processing", <<>>),
                         Ev(callbacks, "onSetCurrentStep", 1, "", <<>>) >>
          /\ callbacks # 0
          /\ last'.result = "true"
          /\ connectionStatus' = connectionStatus]_vars

C6_Witness ==
    /\ last.op = "send"
    /\ last.result = "true"
    /\ Len(trace) = 4

\* C7: a send while no open connection is held returns failure, invokes no
\* callback, sends no frame and changes neither the status, the connection
\* reference, the callback set nor any socket.
C7_SendWithoutConnection ==
    [][(last'.op = "send" /\ ~TransportReady) =>
          /\ last'.result = "false"
          /\ trace' = <<>>
          /\ UNCHANGED <<connectionStatus, ws, callbacks, sockets>>]_vars

\* a refused send while a connection attempt is still connecting
C7_Witness ==
    /\ last.op = "send"
    /\ last.arg = "ok"
    /\ last.result = "false"
    /\ ws # 0
    /\ sockets[ws].readyState = "CONNECTING"

\* C8: when the metadata send or the audio send throws, the status becomes
\* error, on-error is invoked once, the call returns failure, no stage
\* callback is invoked, and a throwing metadata send leaves the audio frame
\* unsent.
C8_SendThrows ==
    [][(last'.op = "send" /\ TransportReady /\ last'.arg # "ok") =>
          /\ connectionStatus' = "error"
          /\ Count(trace', "onError") = 1
          /\ last'.result = "false"
          /\ Count(trace', "onStepUpdate") = 0
          /\ Count(trace', "onSetCurrentStep") = 0
          /\ \A i \in Sends(trace') : trace'[i].s = "metadata"
          /\ last'.arg = "metadataThrows" => Sends(trace') = {}]_vars

\* the audio send threw after the metadata frame went out
C8_Witness ==
    /\ last.op = "send"
    /\ last.arg = "audioThrows"
    /\ Cardinality(Sends(trace)) = 1
    /\ connectionStatus = "error"

\* texts that carry the generic server-error marker and not the fatal text
GenericErrorTexts ==
    { ErrorPrefix \o <<" ", "x">>,
      <<"E", "r", "r", "O", "R", ":">>,
      OryuPrefix \o <<" ", "meeting_info", " ", "x">>,
      ProcessingErrorPrefix \o <<" ", "x">> }

\* texts that start with the fatal missing-metadata text
FatalTexts == { FatalPrefix, FatalPrefix \o <<" ", "x">> }

\* C9: a generic server-error text handled with a callback set present sets
\* the status to error, invokes on-error once and, besides the status
\* notification, nothing else; no socket is closed, the connection
\* reference and the callback set are kept, and a ready transport stays
\* ready.
C9_GenericServerError ==
    [][(last'.op = "message" /\ last'.msg \in GenericErrorTexts /\ callbacks # 0) =>
          /\ connectionStatus' = "error"
          /\ Count(trace', "onError") = 1
          /\ \A i \in DOMAIN trace' :
                trace'[i].name \in {"onStatusChange", "onError"}
          /\ UNCHANGED <<sockets, ws, callbacks>>
          /\ TransportReady => TransportReady']_vars

\* a mixed-case error text arrived on the held, open socket
C9_Witness ==
    /\ last.op = "message"
    /\ last.msg = <<"E", "r", "r", "O", "R", ":">>
    /\ last.t = ws
    /\ TransportReady
    /\ connectionStatus = "error"
    /\ Count(trace, "onError") = 1

\* C10: the fatal text handled with a callback set present makes the status
\* error (when it is not already) and invokes on-error once, then
\* disconnects: the held socket is closed with its close handler removed,
\* on-close is not invoked, the connection reference and the callback set
\* are absent and the status ends disconnected.
C10_FatalServerError ==
    [][(last'.op = "message" /\ last'.msg \in FatalTexts /\ callbacks # 0) =>
          /\ Count(trace', "onError") = 1
          /\ Count(trace', "onClose") = 0
          /\ last'.changes =
                (IF connectionStatus = "error" THEN <<>>
                 ELSE <<<<connectionStatus, "error">>>>)
                \o <<<<"error", "disconnected">>>>
          /\ connectionStatus' = "disconnected"
          /\ ws # 0
          /\ ~sockets'[ws].onclose
          /\ sockets'[ws].readyState \in {"CLOSING", "CLOSED"}
          /\ ws' = 0
          /\ callbacks' = 0]_vars

\* the fatal text arrived on the held, open socket while connected
C10_Witness ==
    /\ last.op = "message"
    /\ last.msg = FatalPrefix
    /\ last.changes = <<<<"connected", "error">>, <<"error", "disconnected">>>>
    /\ sockets[last.t].readyState = "CLOSING"
    /\ ~sockets[last.t].onclose

Shape(e) == <<e.name, e.n, e.s>>

\* the stage events every stage-n-completion text starts with
StageEvents(n) ==
    << <<"onStepUpdate", n, "completed">>,
       <<"onStepUpdate", n + 1, "processing">>,
       <<"onSetCurrentStep", n + 1, "">> >>

StartsWithStageEvents(tr, n) ==
    /\ Len(tr) >= 3
    /\ \A i \in 1..3 : Shape(tr[i]) = StageEvents(n)[i]

\* stage-2 and stage-3 completion texts whose payload is no JSON text
UndecodableTexts ==
    { [n |-> 2, text |-> Step2Prefix \o <<" ", "[", "D1", ",", "]">>],
      [n |-> 3, text |-> Step3Prefix \o <<" ", "{", "k1", ":", "I1">>] }

\* C11: a stage-2 or stage-3 completion text with an undecodable payload,
\* handled with a callback set present, emits the three stage events of its
\* stage first, then sets the status to error and invokes on-error once;
\* it invokes neither on-documents-received nor on-insights-received and
\* leaves the sockets, the connection reference and the callback set alone.
C11_UndecodablePayload ==
    [][\A u \in UndecodableTexts :
          (last'.op = "message" /\ last'.msg = u.text /\ callbacks # 0) =>
              /\ StartsWithStageEvents(trace', u.n)
              /\ Count(trace', "onError") = 1
              /\ Shape(trace'[Len(trace')]) = <<"onError", 0, "messageerror">>
              /\ connectionStatus' = "error"
              /\ Count(trace', "onInsightsReceived") = 0
              /\ Count(trace', "onDocumentsReceived") = 0
              /\ UNCHANGED <<sockets, ws, callbacks>>]_vars

\* a truncated stage-3 payload arrived on the held, open socket
C11_Witness ==
    /\ last.op = "message"
    /\ last.msg = Step3Prefix \o <<" ", "{", "k1", ":", "I1">>
    /\ last.t = ws
    /\ TransportReady
    /\ connectionStatus = "error"
    /\ Len(trace) = 5

\* C12: the close event of the held socket makes the status disconnected
\* unless it is error, which it leaves; on-close is invoked once, with the
\* reason of the event; afterwards the connection reference and the
\* callback set are absent.
C12_CloseOfHeldSocket ==
    [][(last'.op = "close" /\ ws # 0 /\ last'.t = ws) =>
          /\ connectionStatus' =
                (IF connectionStatus = "error" THEN "error" ELSE "disconnected")
          /\ Count(trace', "onClose") = 1
          /\ Shape(trace'[Len(trace')]) = <<"onClose", 0, last'.arg>>
          /\ ws' = 0
          /\ callbacks' = 0]_vars

\* the only socket failed: its close event came with status error
C12_Witness ==
    /\ last.op = "close"
    /\ Len(sockets) = 1
    /\ connectionStatus = "error"
    /\ Count(trace, "onClose") = 1
    /\ ws = 0

\* C13: connect(callbacks) while the held socket is open creates no socket
\* and closes none, stores the supplied callback set, ends with status
\* connected and invokes on-open once, on the supplied set, as its last
\* effect; every callback a later operation invokes goes to the stored set.
C13_ConnectWhileOpen ==
    [][/\ (last'.op = "connect" /\ TransportReady) =>
             /\ UNCHANGED <<sockets, ws>>
             /\ callbacks' = last'.cb
             /\ connectionStatus' = "connected"
             /\ Count(trace', "onOpen") = 1
             /\ trace'[Len(trace')] = Ev(last'.cb, "onOpen", 0, "", <<>>)
       /\ last'.op # "connect" =>
             \A i \in DOMAIN trace' : trace'[i].cb \in {0, callbacks}]_vars

\* a second connect() on the open socket replaced callback set 1 by 2
C13_Witness ==
    /\ last.op = "connect"
    /\ last.cb = 2
    /\ Len(sockets) = 1
    /\ TransportReady
    /\ callbacks = 2
    /\ Len(trace) = 2
    /\ trace[1].cb = 1
    /\ trace[2] = Ev(2, "onOpen", 0, "", <<>>)

\* stage-2 completion texts with a well-formed payload, and the records
\* their payload lists, in wire order
WellFormedStep2 ==
    { [text |-> Step2Prefix \o <<" ", "[", "D1", "]">>,
       records |-> << [title |-> <<"T">>, type |-> <<"report">>, score |-> <<>>] >>],
      [text |-> Step2Prefix \o <<" ", "[", "D1", ",", "D2", "]">>,
       records |-> << [title |-> <<"T">>, type |-> <<"report">>, score |-> <<>>],
                      [title |-> <<"U">>, type |-> <<"memo">>, score |-> <<90>>] >>] }

\* C14: a stage-2 completion text with a well-formed payload, handled with
\* a callback set present, emits the stage events of stage 2 and then
\* on-documents-received, and nothing else; the list has one Document per
\* wire record, in wire order, with that record's title, type and optional
\* score, and pairwise distinct ids; the status is unchanged.
C14_DocumentsReceived ==
    [][\A w \in WellFormedStep2 :
          (last'.op = "message" /\ last'.msg = w.text /\ callbacks # 0) =>
              /\ Len(trace') = 4
              /\ StartsWithStageEvents(trace', 2)
              /\ trace'[4].name = "onDocumentsReceived"
              /\ \A i \in 1..4 : trace'[i].cb = callbacks
              /\ LET docs == trace'[4].v
                 IN  /\ Len(docs) = Len(w.records)
                     /\ \A i \in 1..Len(docs) :
                           /\ docs[i].title = w.records[i].title
                           /\ docs[i].type = w.records[i].type
                           /\ docs[i].score = w.records[i].score
                     /\ \A i, j \in 1..Len(docs) :
                           i # j => docs[i].id # docs[j].id
              /\ connectionStatus' = connectionStatus]_vars

\* a two-record payload was delivered as two documents
C14_Witness ==
    /\ last.op = "message"
    /\ last.msg = Step2Prefix \o <<" ", "[", "D1", ",", "D2", "]">>
    /\ Len(trace) = 4
    /\ trace[4].name = "onDocumentsReceived"
    /\ Len(trace[4].v) = 2

\* the stage-4 completion text the peer sends
Step4Text == Step4Prefix \o <<" ", "<p>", "x", "</p>">>

\* C15: a stage-4 completion text handled with a callback set present
\* emits exactly on-stage-update(4, completed), on-stage-update(5,
\* processing), on-set-current-stage(5), on-html-received(trailing text),
\* on-set-highlight-mode(true), on-stage-update(5, completed), in this
\* order; nothing else ever emits on-stage-update(5, completed).
C15_Stage4Sequence ==
    [][/\ (last'.op = "message" /\ last'.msg = Step4Text /\ callbacks # 0) =>
             /\ [i \in DOMAIN trace' |-> Shape(trace'[i])] =
                   StageEvents(4) \o
                   << <<"onHtmlReceived", 0, "">>,
                      <<"onSetAiHighlightMode", 0, "true">>,
                      <<"onStepUpdate", 5, "completed">> >>
             /\ trace'[4].v = <<"<p>", "x", "</p>">>
       /\ (\E i \in DOMAIN trace' :
              Shape(trace'[i]) = <<"onStepUpdate", 5, "completed">>) =>
             (last'.op = "message" /\ last'.msg = Step4Text)]_vars

C15_Witness ==
    /\ last.op = "message"
    /\ last.msg = Step4Text
    /\ Len(trace) = 6
    /\ Shape(trace[6]) = <<"onStepUpdate", 5, "completed">>

\* the stage numbers of the texts recorded in a stream, in order
RECURSIVE Markers(_)
Markers(tr) ==
    IF tr = <<>> THEN <<>>
    ELSE (IF Head(tr).name = "message" THEN <<Head(tr).n>> ELSE <<>>)
         \o Markers(Tail(tr))

\* the stages on-set-current-stage was invoked with, in order
RECURSIVE CurrentStages(_)
CurrentStages(tr) ==
    IF tr = <<>> THEN <<>>
    ELSE (IF Head(tr).name = "onSetCurrentStep" THEN <<Head(tr).n>> ELSE <<>>)
         \o CurrentStages(Tail(tr))

\* the stream from its first recorded text on, as shapes
RECURSIVE FromFirstText(_)
FromFirstText(tr) ==
    IF tr = <<>> THEN <<>>
    ELSE IF Head(tr).name = "message"
    THEN [i \in DOMAIN tr |-> Shape(tr[i])]
    ELSE FromFirstText(Tail(tr))

\* what the documented handling of one stage-n text adds to the stream
StageLog(n) ==
    << <<"message", n, "">> >> \o StageEvents(n) \o
    (CASE n = 1 -> <<>>
       [] n = 2 -> << <<"onDocumentsReceived", 0, "">> >>
       [] n = 3 -> << <<"onInsightsReceived", 0, "">> >>
       [] n = 4 -> << <<"onHtmlReceived", 0, "">>,
                      <<"onSetAiHighlightMode", 0, "true">>,
                      <<"onStepUpdate", 5, "completed">> >>)

RECURSIVE ExpectedLog(_)
ExpectedLog(ns) ==
    IF ns = <<>> THEN <<>> ELSE StageLog(Head(ns)) \o ExpectedLog(Tail(ns))

\* C16: whatever texts came before it, a stage-n completion text adds the
\* same callbacks to the stream: the stream is the concatenation of the
\* documented callbacks of its texts, in the order delivered (a stage-3
\* text before any stage-2 text included); when the texts come in order
\* 1, 2, 3, 4 on-set-current-stage is invoked with 2, 3, 4, 5.
C16_NoStageOrderEnforced ==
    /\ FromFirstText(trace) = ExpectedLog(Markers(trace))
    /\ Markers(trace) = <<1, 2, 3, 4>> => CurrentStages(trace) = <<2, 3, 4, 5>>

\* a stage-3 text was handled first, a stage-2 text after it
C16_Witness ==
    /\ Markers(trace) = <<3, 2>>
    /\ CurrentStages(trace) = <<4, 3>>
    /\ Count(trace, "onInsightsReceived") = 1

\* C17: a text delivered by a socket after disconnect() was called on it
\* (its close handler is removed) invokes no callback and changes no
\* status.
C17_TextAfterDisconnectIgnored ==
    [][(last'.op = "message" /\ ~sockets[last'.t].onclose) =>
          /\ trace' = <<>>
          /\ connectionStatus' = connectionStatus]_vars

\* C18: the connection reference is absent exactly when the callback set
\* is absent.
C18_ReferenceIffCallbacks == (ws = 0) <=> (callbacks = 0)

\* a close event has just cleared both
C18_Witness ==
    /\ last.op = "close"
    /\ Count(trace, "onClose") = 1
    /\ ws = 0
    /\ callbacks = 0

\* C19: a status of connecting or connected comes with a connection
\* reference.
C19_StatusImpliesReference ==
    connectionStatus \in {"connecting", "connected"} => ws # 0

\* C20: an open, error or close event of a socket that is not the held one
\* changes neither the status, the connection reference nor the callback
\* set and invokes no callback.
C20_StaleLifecycleEventIgnored ==
    [][(last'.op \in {"open", "error", "close"} /\ last'.t # ws) =>
          /\ UNCHANGED <<connectionStatus, ws, callbacks>>
          /\ trace' = <<>>]_vars
====
